---------------------------- MODULE Spec2Model ----------------------------
(***************************************************************************)
(* Model of src/frontend/app/page.tsx: the canonical binary encoding of a  *)
(* "create token" request (amount, owner, metadata, signature envelope)    *)
(* and the Home component's handlers that sign and submit it.              *)
(*                                                                         *)
(* Strings that are parsed as numbers or hex are sequences of one-         *)
(* character strings; strings that are UTF-8 encoded (name, symbol) are    *)
(* sequences of UTF-16 code units, as in a JavaScript string.  A bigint    *)
(* is a sign and a sequence of decimal digits (most significant first),    *)
(* so that 128-bit arithmetic is exact.  A function that can throw returns *)
(* a record whose field ok says whether it returned.                       *)
(***************************************************************************)
EXTENDS Integers, Sequences, FiniteSets, TLC

VARIABLES
    args,           \* the arguments of the encoder that was called    
    ret,            \* what it returned or threw; ret.fn = "none" before the call
    form,           \* useState(defaultForm)
    submitting,     \* useState(false)
    result,         \* useState(''): [error, text], "Error: text" when error
    walletAddress,  \* useState('')
    walletStatus,   \* useState('')
    hasEthereum,    \* whether window.ethereum exists
    connect,        \* the connectWallet call in flight
    signer,         \* the signWithMetaMask call the Sign Payload button started
    submit,         \* the submitToken call in flight
    run,            \* the external calls of the latest submitToken call
    edits,          \* how many times the user has edited a field
    lastSigned      \* the envelope signWithMetaMask stored last, and the message signed

codecVars == <<args, ret>>

homeVars == <<form, submitting, result, walletAddress, walletStatus, hasEthereum,
              connect, signer, submit, run, edits, lastSigned>>

vars == <<args, ret, form, submitting, result, walletAddress, walletStatus, hasEthereum,
          connect, signer, submit, run, edits, lastSigned>>

(***************************************************************************)
(* Program constants.                                                      *)
(***************************************************************************)
AMOUNT_DECIMALS == 18
U128_BYTES == 16
EVM_OWNER_HEX == 40
NATIVE_OWNER_HEX == 64
EVM_TAG == 2
NATIVE_TAG == 1
SIG_BYTES == 65
ADDRESS_BYTES == 20

(***************************************************************************)
(* Bounds of the inputs.                                                   *)
(***************************************************************************)
MaxIntDigits == 22
FracSlack == 1
LenSlack == 3
MaxNameLen == 2
MaxEdits == 2

(***************************************************************************)
(* JavaScript string primitives.                                           *)
(***************************************************************************)
WhiteSpace == {" "}

Rep(c, n) == [i \in 1..n |-> c]

Fill(pat, n) == [i \in 1..n |-> pat[((i - 1) % Len(pat)) + 1]]

\* the first index from i on, and the last index down from i, whose element
\* is not in S (Len(s) + 1 and 0 when there is none)
RECURSIVE FirstNotIn(_, _, _)
FirstNotIn(s, S, i) == IF i > Len(s) \/ s[i] \notin S THEN i ELSE FirstNotIn(s, S, i + 1)

RECURSIVE LastNotIn(_, _, _)
LastNotIn(s, S, i) == IF i < 1 \/ s[i] \notin S THEN i ELSE LastNotIn(s, S, i - 1)

\* String.prototype.trim
Trim(s) == SubSeq(s, FirstNotIn(s, WhiteSpace, 1), LastNotIn(s, WhiteSpace, Len(s)))

\* s.replace(/_/g, '')
StripUnderscores(s) == SelectSeq(s, LAMBDA c : c # "_")

StartsWith(s, p) == Len(s) >= Len(p) /\ SubSeq(s, 1, Len(p)) = p

Drop(s, n) == SubSeq(s, n + 1, Len(s))

\* s.replace(/^\+/, '')
StripLeadingPlus(s) == IF StartsWith(s, <<"+">>) THEN Drop(s, 1) ELSE s

\* s.replace(/^0+/, '')
StripLeadingZeroChars(s) == Drop(s, FirstNotIn(s, {"0"}, 1) - 1)

\* s.split('.'): the pieces between the points, in order
RECURSIVE SplitFrom(_, _, _, _)
SplitFrom(s, i, piece, pieces) ==
    IF i > Len(s) THEN Append(pieces, piece)
    ELSE IF s[i] = "." THEN SplitFrom(s, i + 1, <<>>, Append(pieces, piece))
    ELSE SplitFrom(s, i + 1, Append(piece, s[i]), pieces)

SplitDot(s) == SplitFrom(s, 1, <<>>, <<>>)

\* s.padEnd(n, '0')
PadEndZeros(s, n) == IF Len(s) >= n THEN s ELSE s \o Rep("0", n - Len(s))

(***************************************************************************)
(* bigint: [neg, mag], mag the decimal digits without leading zeros.       *)
(***************************************************************************)
DecDigits == <<"0", "1", "2", "3", "4", "5", "6", "7", "8", "9">>

DecDigitValue == [c \in {DecDigits[i] : i \in 1..10} |-> (CHOOSE i \in 1..10 : DecDigits[i] = c) - 1]

IsDecDigit(c) == c \in DOMAIN DecDigitValue

DecDigitVal(c) == DecDigitValue[c]

StripZeros(ds) ==
    LET i == FirstNotIn(ds, {0}, 1)
    IN  IF i > Len(ds) THEN <<0>> ELSE Drop(ds, i - 1)

BigZero == [neg |-> FALSE, mag |-> <<0>>]

\* BigInt(string): StringToBigInt accepts surrounding white space and a sign
\* before decimal digits; anything else is a SyntaxError.  (The 0x, 0o and
\* 0b literals need a letter that the amount alphabet below does not hold.)
StringToBigInt(str) ==
    LET t == Trim(str)
        signed == Len(t) > 0 /\ t[1] \in {"+", "-"}
        body == IF signed THEN Drop(t, 1) ELSE t
        mag == StripZeros([i \in 1..Len(body) |-> DecDigitVal(body[i])])
    IN  IF t = <<>> THEN [ok |-> TRUE, value |-> BigZero]
        ELSE IF body = <<>> \/ \E i \in 1..Len(body) : ~IsDecDigit(body[i])
        THEN [ok |-> FALSE, value |-> BigZero]
        ELSE [ok |-> TRUE,
              value |-> [neg |-> signed /\ t[1] = "-" /\ mag # <<0>>, mag |-> mag]]

RECURSIVE DivStep(_, _, _, _)
DivStep(mag, i, carry, acc) ==
    IF i > Len(mag) THEN [q |-> StripZeros(acc), r |-> carry]
    ELSE LET cur == carry * 10 + mag[i]
         IN  DivStep(mag, i + 1, cur % 256, Append(acc, cur \div 256))

\* mag divided by 256: quotient digits and remainder
BigDivMod256(mag) == DivStep(mag, 1, 0, <<>>)

RECURSIVE IncStep(_, _)
IncStep(mag, i) ==
    IF i = 0 THEN <<1>> \o mag
    ELSE IF mag[i] < 9 THEN [mag EXCEPT ![i] = mag[i] + 1]
    ELSE IncStep([mag EXCEPT ![i] = 0], i - 1)

BigInc(mag) == IncStep(mag, Len(mag))

RECURSIVE RemStep(_, _, _)
RemStep(mag, i, carry) ==
    IF i > Len(mag) THEN carry ELSE RemStep(mag, i + 1, (carry * 10 + mag[i]) % 256)

\* mag modulo 256
BigMod256(mag) == RemStep(mag, 1, 0)

\* Number(cursor & 0xffn): the low byte of the two's complement of cursor
BigAnd255(v) ==
    LET r == BigMod256(v.mag)
    IN  IF v.neg THEN (256 - r) % 256 ELSE r

\* cursor >> 8n: floor(cursor / 256)
BigShr8(v) ==
    LET dm == BigDivMod256(v.mag)
    IN  IF ~v.neg THEN [neg |-> FALSE, mag |-> dm.q]
        ELSE IF dm.r = 0 THEN [neg |-> TRUE, mag |-> dm.q]
        ELSE [neg |-> TRUE, mag |-> BigInc(dm.q)]

(***************************************************************************)
(* Primitive encoders.                                                     *)
(***************************************************************************)
RECURSIVE Pow(_, _)
Pow(b, e) == IF e = 0 THEN 1 ELSE b * Pow(b, e - 1)

\* DataView.setUint32(0, value, true)
encodeU32LE(value) == [i \in 1..4 |-> (value \div Pow(256, i - 1)) % 256]

RECURSIVE U128Loop(_, _, _)
U128Loop(cursor, i, bytes) ==
    IF i >= U128_BYTES THEN bytes
    ELSE U128Loop(BigShr8(cursor), i + 1, Append(bytes, BigAnd255(cursor)))

encodeU128LE(value) == U128Loop(value, 0, <<>>)

(***************************************************************************)
(* Fixed-point amount codec.                                               *)
(***************************************************************************)
Threw(msg) == [ok |-> FALSE, error |-> msg, value |-> BigZero, bytes |-> <<>>]

Returned(value, bytes) == [ok |-> TRUE, error |-> "", value |-> value, bytes |-> bytes]

parseAmountToU128(input) ==
    LET raw == StripUnderscores(Trim(input))
        parts == SplitDot(StripLeadingPlus(raw))
        integerPartRaw == parts[1]
        fractionalRaw == IF Len(parts) >= 2 THEN parts[2] ELSE <<>>
        integerPart == IF integerPartRaw = <<>> THEN <<"0">> ELSE integerPartRaw
        fractionalPart == PadEndZeros(fractionalRaw, AMOUNT_DECIMALS)
        stripped == StripLeadingZeroChars(integerPart \o fractionalPart)
        digits == IF stripped = <<>> THEN <<"0">> ELSE stripped
        big == StringToBigInt(digits)
    IN  IF raw = <<>> THEN Returned(BigZero, <<>>)
        ELSE IF StartsWith(raw, <<"-">>) THEN Threw("Amount cannot be negative")
        ELSE IF Len(fractionalRaw) > AMOUNT_DECIMALS
        THEN Threw("Too many decimal places for Amount")
        ELSE IF ~big.ok THEN Threw("SyntaxError: Cannot convert to a BigInt")
        ELSE Returned(big.value, <<>>)

encodeAmount(input) ==
    LET parsed == parseAmountToU128(input)
    IN  IF parsed.ok THEN Returned(parsed.value, encodeU128LE(parsed.value)) ELSE parsed

(***************************************************************************)
(* The Home component: its state after construction.  The form's           *)
(* description, chainId, tokenFactory and endpoint enter neither the       *)
(* encoding nor the mutation variables and are left out.                   *)
(***************************************************************************)
CREATE_TOKEN_TYPE == <<67, 114, 101, 97, 116, 101, 84, 111, 107, 101, 110, 82, 101, 113, 117, 101, 115, 116>>

DEFAULT_OWNER ==
    <<"0", "x", "4", "9", "c", "2", "f", "8", "7", "0", "0">>
        \o <<"1", "e", "c", "3", "e", "3", "9", "e", "a", "5", "a">>
        \o <<"4", "d", "b", "d", "1", "1", "5", "e", "4", "0", "4">>
        \o <<"c", "4", "d", "4", "a", "4", "6", "4", "1", "e", "8">>
        \o <<"3", "c", "9", "a", "6", "0", "d", "c", "3", "d", "9">>
        \o <<"e", "7", "7", "7", "7", "8", "f", "7", "2", "c", "1">>

SUPPLY_DEFAULT == <<"8", "0", "0", "0", "0", "0", "0", "0", "0">>

defaultForm ==
    [tokenName |-> <<84, 101, 115, 116>>,
     tokenSymbol |-> <<84, 83, 84>>,
     owner |-> DEFAULT_OWNER,
     signature |-> <<>>,
     decimals |-> 9,
     supply |-> SUPPLY_DEFAULT]

NoResult == [error |-> FALSE, text |-> ""]

NoMessage == [keccak_256 |-> <<>>]

NoRequest ==
    [owner |-> <<>>, name |-> <<>>, symbol |-> <<>>, decimals |-> 0, supply |-> <<>>,
     sig |-> <<>>]

SignerIdle == [pc |-> "idle", owner |-> <<>>, message |-> NoMessage]

SubmitIdle ==
    [pc |-> "idle", form |-> defaultForm, owner |-> <<>>, message |-> NoMessage,
     request |-> NoRequest]

NoRun ==
    [started |-> FALSE, sigEmpty |-> FALSE, wallet |-> FALSE, personalSign |-> 0,
     fetch |-> 0, rejected |-> FALSE, finished |-> FALSE]

\* no envelope has been stored by signWithMetaMask
NoSigned == [signatureHex |-> <<>>, message |-> NoMessage]

HomeConstructed ==
    /\ form = defaultForm
    /\ submitting = FALSE
    /\ result = NoResult
    /\ walletAddress = <<>>
    /\ walletStatus = ""
    /\ connect = "idle"
    /\ signer = SignerIdle
    /\ submit = SubmitIdle
    /\ run = NoRun
    /\ edits = 0
    /\ lastSigned = NoSigned

(***************************************************************************)
(* The amount inputs: a sign, integer digits, a point and fractional       *)
(* digits, with white space and underscores around and inside.             *)
(***************************************************************************)
TWO_128_INT == <<"3","4","0","2","8","2","3","6","6","9","2","0","9","3","8","4","6","3","4","6","3">>
TWO_128_FRAC == <<"3","7","4","6","0","7","4","3","1","7","6","8","2","1","1","4","5","6">>
TWO_128_FRAC_LESS_ONE == <<"3","7","4","6","0","7","4","3","1","7","6","8","2","1","1","4","5","5">>

IntParts ==
    {Rep(d, n) : d \in {"1", "9"}, n \in 0..MaxIntDigits}
        \cup {<<"0", "0", "7">>, <<"1", "_", "0", "0", "0">>, <<"1", "e", "3">>, TWO_128_INT}

FracTails ==
    {<<>>}
        \cup {<<".">> \o Rep(d, n) : d \in {"0", "7"}, n \in 0..(AMOUNT_DECIMALS + FracSlack)}
        \cup {<<".">> \o TWO_128_FRAC, <<".">> \o TWO_128_FRAC_LESS_ONE,
              <<".", "5", ".", "2", "5">>, <<".", "5", "_", "0">>}

PlainAmounts == {i \o f : i \in IntParts, f \in FracTails}

DecoratedAmounts ==
    {pre \o sign \o body \o post :
        pre \in {<<>>, <<" ">>, <<"_", " ">>},
        sign \in {<<"+">>, <<"-">>, <<"+", "-">>, <<"+", "+">>},
        body \in {<<"5">>, <<"1", ".", "5">>, <<".", "2", "5">>},
        post \in {<<>>, <<" ">>}}
        \cup {<<" ">>, <<"_">>, <<"+">>, <<"-">>, <<" ", "8", "0", "0", " ">>,
              <<"_", " ", "5">>}

AmountInputs == PlainAmounts \cup DecoratedAmounts

NoCall == [fn |-> "none", ok |-> FALSE, error |-> "", value |-> BigZero, bytes |-> <<>>]

Result(fn, r) == [fn |-> fn, ok |-> r.ok, error |-> r.error, value |-> r.value, bytes |-> r.bytes]

InitAmount ==
    /\ args \in {[input |-> a] : a \in AmountInputs}
    /\ ret = NoCall
    /\ hasEthereum = FALSE
    /\ HomeConstructed

Call_parseAmountToU128 ==
    /\ ret.fn = "none"
    /\ ret' = Result("parseAmountToU128", parseAmountToU128(args.input))
    /\ UNCHANGED <<args, homeVars>>

Call_encodeAmount ==
    /\ ret.fn = "none"
    /\ ret' = Result("encodeAmount", encodeAmount(args.input))
    /\ UNCHANGED <<args, homeVars>>

NextAmount == Call_parseAmountToU128 \/ Call_encodeAmount

SpecAmount == InitAmount /\ [][NextAmount]_vars

(***************************************************************************)
(* Hex strings and bytes.                                                  *)
(***************************************************************************)
HexDigits == <<"0", "1", "2", "3", "4", "5", "6", "7", "8", "9",
               "a", "b", "c", "d", "e", "f">>

UpperCase == <<"A", "B", "C", "D", "E", "F", "G", "X">>
LowerCase == <<"a", "b", "c", "d", "e", "f", "g", "x">>

LowerOf ==
    [c \in {UpperCase[i] : i \in 1..Len(UpperCase)} |->
        LowerCase[CHOOSE i \in 1..Len(UpperCase) : UpperCase[i] = c]]

\* String.prototype.toLowerCase, on the letters of the hex alphabet
ToLowerChar(c) == IF c \in DOMAIN LowerOf THEN LowerOf[c] ELSE c

ToLowerCase(s) == [i \in 1..Len(s) |-> ToLowerChar(s[i])]

\* the value of a hex digit of either case
HexDigitValue ==
    [c \in {HexDigits[i] : i \in 1..16} \cup {"A", "B", "C", "D", "E", "F"} |->
        (CHOOSE i \in 1..16 : HexDigits[i] = ToLowerChar(c)) - 1]

IsHexDigit(c) == c \in DOMAIN HexDigitValue

HexDigitVal(c) == HexDigitValue[c]

\* s.replace(/^0x/, '')
StripPrefix0x(s) == IF StartsWith(s, <<"0", "x">>) THEN Drop(s, 2) ELSE s

\* s.replace(/^0x/i, '')
StripPrefix0xAnyCase(s) ==
    IF Len(s) >= 2 /\ s[1] = "0" /\ s[2] \in {"x", "X"} THEN Drop(s, 2) ELSE s

\* Number.parseInt(s, 16): leading white space and a sign are skipped, then
\* a 0x prefix, then the longest run of hex digits is read; NaN without one.
ParseInt16(s) ==
    LET t == Drop(s, FirstNotIn(s, WhiteSpace, 1) - 1)
        signed == Len(t) > 0 /\ t[1] \in {"+", "-"}
        u == StripPrefix0xAnyCase(IF signed THEN Drop(t, 1) ELSE t)
        hexRun == SubSeq(u, 1, FirstNotIn(u, DOMAIN HexDigitValue, 1) - 1)
        n == IF Len(hexRun) = 0 THEN 0
             ELSE IF Len(hexRun) = 1 THEN HexDigitVal(hexRun[1])
             ELSE 16 * HexDigitVal(hexRun[1]) + HexDigitVal(hexRun[2])
    IN  [nan |-> hexRun = <<>>, n |-> IF signed /\ t[1] = "-" THEN 0 - n ELSE n]

\* storing a number into a Uint8Array: NaN is 0, anything else modulo 256
ToUint8(x) == IF x.nan THEN 0 ELSE x.n % 256

hexToBytes(hex) ==
    LET normalized == StripPrefix0xAnyCase(hex)
    IN  IF Len(normalized) % 2 # 0 THEN Threw("Invalid hex string length")
        ELSE Returned(BigZero,
                 [i \in 1..(Len(normalized) \div 2) |->
                     ToUint8(ParseInt16(SubSeq(normalized, 2 * i - 1, 2 * i)))])

\* value.toString(16).padStart(2, '0') of every byte, joined
bytesToHex(bytes) ==
    [i \in 1..(2 * Len(bytes)) |->
        IF i % 2 = 1 THEN HexDigits[(bytes[(i + 1) \div 2] \div 16) + 1]
        ELSE HexDigits[(bytes[i \div 2] % 16) + 1]]

(***************************************************************************)
(* Tagged account reference codec and signature envelope codec.            *)
(***************************************************************************)
encodeAccountOwner_TagsSwapped(owner) ==
    LET normalized == StripPrefix0x(ToLowerCase(Trim(owner)))
        raw == hexToBytes(normalized)
    IN  IF Len(normalized) = EVM_OWNER_HEX
        THEN (IF raw.ok THEN Returned(BigZero, encodeU32LE(NATIVE_TAG) \o raw.bytes) ELSE raw)
        ELSE IF Len(normalized) = NATIVE_OWNER_HEX
        THEN (IF raw.ok THEN Returned(BigZero, encodeU32LE(EVM_TAG) \o raw.bytes) ELSE raw)
        ELSE Threw("Owner must be 20-byte or 32-byte hex")

encodeAccountOwner(owner) ==
    LET normalized == StripPrefix0x(ToLowerCase(Trim(owner)))
        raw == hexToBytes(normalized)
    IN  IF Len(normalized) = EVM_OWNER_HEX
        THEN (IF raw.ok THEN Returned(BigZero, encodeU32LE(EVM_TAG) \o raw.bytes) ELSE raw)
        ELSE IF Len(normalized) = NATIVE_OWNER_HEX
        THEN (IF raw.ok THEN Returned(BigZero, encodeU32LE(NATIVE_TAG) \o raw.bytes) ELSE raw)
        ELSE Threw("Owner must be 20-byte or 32-byte hex")

encodeEvmAccountSignature_NoLengthCheck(signatureHex, address) ==
    LET sigBytes == hexToBytes(signatureHex)
        addressBytes == hexToBytes(StripPrefix0x(ToLowerCase(Trim(address))))
    IN  IF ~sigBytes.ok THEN sigBytes
        ELSE IF ~addressBytes.ok THEN addressBytes
        ELSE IF Len(addressBytes.bytes) # ADDRESS_BYTES
        THEN Threw("EVM address must be 20 bytes")
        ELSE Returned(BigZero, encodeU32LE(EVM_TAG) \o sigBytes.bytes \o addressBytes.bytes)

encodeEvmAccountSignature(signatureHex, address) ==
    LET sigBytes == hexToBytes(signatureHex)
        addressBytes == hexToBytes(StripPrefix0x(ToLowerCase(Trim(address))))
    IN  IF ~sigBytes.ok THEN sigBytes
        ELSE IF Len(sigBytes.bytes) # SIG_BYTES THEN Threw("EVM signature must be 65 bytes")
        ELSE IF ~addressBytes.ok THEN addressBytes
        ELSE IF Len(addressBytes.bytes) # ADDRESS_BYTES
        THEN Threw("EVM address must be 20 bytes")
        ELSE Returned(BigZero, encodeU32LE(EVM_TAG) \o sigBytes.bytes \o addressBytes.bytes)

(***************************************************************************)
(* Length-prefixed strings, token metadata and the request payload.        *)
(***************************************************************************)
IsHighSurrogate(u) == u >= 55296 /\ u <= 56319
IsLowSurrogate(u) == u >= 56320 /\ u <= 57343

\* the UTF-8 bytes of one Unicode scalar value
Utf8Scalar(cp) ==
    IF cp < 128 THEN <<cp>>
    ELSE IF cp < 2048 THEN <<192 + (cp \div 64), 128 + (cp % 64)>>
    ELSE IF cp < 65536
    THEN <<224 + (cp \div 4096), 128 + ((cp \div 64) % 64), 128 + (cp % 64)>>
    ELSE <<240 + (cp \div 262144), 128 + ((cp \div 4096) % 64),
           128 + ((cp \div 64) % 64), 128 + (cp % 64)>>

\* TextEncoder.encode: a surrogate pair is one scalar value, a lone
\* surrogate is replaced by U+FFFD
RECURSIVE Utf8From(_, _)
Utf8From(units, i) ==
    IF i > Len(units) THEN <<>>
    ELSE IF IsHighSurrogate(units[i]) /\ i < Len(units) /\ IsLowSurrogate(units[i + 1])
    THEN Utf8Scalar(65536 + (units[i] - 55296) * 1024 + (units[i + 1] - 56320))
             \o Utf8From(units, i + 2)
    ELSE IF IsHighSurrogate(units[i]) \/ IsLowSurrogate(units[i])
    THEN Utf8Scalar(65533) \o Utf8From(units, i + 1)
    ELSE Utf8Scalar(units[i]) \o Utf8From(units, i + 1)

TextEncoderEncode(value) == Utf8From(value, 1)

encodeString(value) ==
    LET bytes == TextEncoderEncode(value)
    IN  encodeU32LE(Len(bytes)) \o bytes

\* new Uint8Array([decimals]) keeps decimals modulo 256
encodeTokenMetadata(name, symbol, decimals) ==
    encodeString(name) \o encodeString(symbol) \o <<decimals % 256>>

encodeCreateTokenRequest_SupplyFirst(payload) ==
    LET owner == encodeAccountOwner(payload.owner)
        supply == encodeAmount(payload.supply)
    IN  IF ~owner.ok THEN owner
        ELSE IF ~supply.ok THEN supply
        ELSE Returned(BigZero,
                 owner.bytes \o supply.bytes
                     \o encodeTokenMetadata(payload.name, payload.symbol, payload.decimals))

encodeCreateTokenRequest(payload) ==
    LET owner == encodeAccountOwner(payload.owner)
        supply == encodeAmount(payload.supply)
    IN  IF ~owner.ok THEN owner
        ELSE IF ~supply.ok THEN supply
        ELSE Returned(BigZero,
                 owner.bytes
                     \o encodeTokenMetadata(payload.name, payload.symbol, payload.decimals)
                     \o supply.bytes)

(***************************************************************************)
(* The owner, signature and address inputs: an optional prefix, a body of  *)
(* a length near the accepted ones filled with a pattern of characters,    *)
(* optional white space.                                                   *)
(***************************************************************************)
Near(n) == {m \in (n - LenSlack)..(n + LenSlack) : m >= 0}

OwnerInputs ==
    {pre \o Fill(pat, n) \o post :
        pre \in {<<>>, <<"0", "x">>, <<"0", "X">>, <<"0", "x", "0", "x">>, <<" ", "0", "x">>},
        pat \in {<<"a">>, <<"0", "9", "A", "f">>, <<"g">>, <<"1", "b", "G", "7", "c">>},
        n \in Near(EVM_OWNER_HEX) \cup Near(NATIVE_OWNER_HEX) \cup {0},
        post \in {<<>>, <<" ">>}}

SignatureInputs ==
    {pre \o Fill(pat, n) :
        pre \in {<<>>, <<"0", "x">>, <<"0", "X">>},
        pat \in {<<"a", "B", "0", "1">>, <<"5", "g">>},
        n \in Near(2 * SIG_BYTES) \cup {0}}

AddressInputs ==
    {pre \o Fill(pat, n) :
        pre \in {<<>>, <<"0", "x">>, <<"0", "x", "0", "x">>, <<" ", "0", "X">>},
        pat \in {<<"c", "D", "2">>, <<"x">>},
        n \in Near(2 * ADDRESS_BYTES)}

HexArgs ==
    {[kind |-> "owner", owner |-> o, signatureHex |-> <<>>, address |-> <<>>] :
        o \in OwnerInputs}
        \cup {[kind |-> "signature", owner |-> <<>>, signatureHex |-> s, address |-> a] :
                 s \in SignatureInputs, a \in AddressInputs}

(***************************************************************************)
(* The decoder of section 4.2, which the round-trip law is stated with:    *)
(* the 16 bytes read as a little-endian integer, written in decimal,       *)
(* left-padded to 19 digits, a point put 18 digits from the end, trailing  *)
(* zeros and a trailing point stripped.                                    *)
(***************************************************************************)
RECURSIVE NatDigits(_)
NatDigits(n) == IF n < 10 THEN <<n>> ELSE Append(NatDigits(n \div 10), n % 10)

RECURSIVE MulAddStep(_, _, _, _)
MulAddStep(mag, i, carry, acc) ==
    IF i = 0 THEN StripZeros(NatDigits(carry) \o acc)
    ELSE LET t == mag[i] * 256 + carry
         IN  MulAddStep(mag, i - 1, t \div 10, <<t % 10>> \o acc)

RECURSIVE BytesToMag(_, _, _)
BytesToMag(bytes, i, acc) ==
    IF i = 0 THEN acc
    ELSE BytesToMag(bytes, i - 1, MulAddStep(acc, Len(acc), bytes[i], <<>>))

DecodeU128LE(bytes) == BytesToMag(bytes, Len(bytes), <<0>>)

StripTrailingZeroChars(s) == SubSeq(s, 1, LastNotIn(s, {"0"}, Len(s)))

DecodeAmount(bytes) ==
    LET mag == DecodeU128LE(bytes)
        ds == [i \in 1..Len(mag) |-> DecDigits[mag[i] + 1]]
        padded == IF Len(ds) >= AMOUNT_DECIMALS + 1 THEN ds
                  ELSE Rep("0", AMOUNT_DECIMALS + 1 - Len(ds)) \o ds
        int == SubSeq(padded, 1, Len(padded) - AMOUNT_DECIMALS)
        frac == StripTrailingZeroChars(Drop(padded, Len(padded) - AMOUNT_DECIMALS))
    IN  IF frac = <<>> THEN int ELSE int \o <<".">> \o frac

\* A non-negative decimal amount: digits, at most one point, digits.
PointsOf(s) == {i \in 1..Len(s) : s[i] = "."}

IsPlainDecimal(s) ==
    /\ \A i \in 1..Len(s) : IsDecDigit(s[i]) \/ s[i] = "."
    /\ Cardinality(PointsOf(s)) <= 1

FirstPoint(s) == CHOOSE i \in PointsOf(s) : \A j \in PointsOf(s) : i <= j

IntDigitsOf(s) == IF PointsOf(s) = {} THEN s ELSE SubSeq(s, 1, FirstPoint(s) - 1)

FracDigitsOf(s) == IF PointsOf(s) = {} THEN <<>> ELSE Drop(s, FirstPoint(s))

NormalizedAmount(s) ==
    LET int == StripLeadingZeroChars(IntDigitsOf(s))
        frac == StripTrailingZeroChars(FracDigitsOf(s))
    IN  (IF int = <<>> THEN <<"0">> ELSE int)
            \o (IF frac = <<>> THEN <<>> ELSE <<".">> \o frac)

\* 2^128 in decimal digits, and the order of two magnitudes
TwoPow128 == [i \in 1..39 |-> DecDigitVal((TWO_128_INT \o TWO_128_FRAC)[i])]

MagLess(a, b) ==
    \/ Len(a) < Len(b)
    \/ /\ Len(a) = Len(b)
       /\ \E i \in 1..Len(a) : a[i] < b[i] /\ \A j \in 1..(i - 1) : a[j] = b[j]

\* C1: for every non-negative decimal amount string with at most 18
\* fractional digits, whatever the size of its integer part, decoding the
\* 16 bytes encodeAmount produced gives back the normalized amount.
C1_RoundTrip ==
    (/\ ret.fn = "encodeAmount"
     /\ IsPlainDecimal(args.input)
     /\ Len(FracDigitsOf(args.input)) <= AMOUNT_DECIMALS)
        => (ret.ok /\ DecodeAmount(ret.bytes) = NormalizedAmount(args.input))

\* C2: every input parseAmountToU128 accepts yields an unscaled value v
\* with 0 <= v < 2^128.
C2_AcceptedFitsU128 ==
    (ret.fn = "parseAmountToU128" /\ ret.ok)
        => (~ret.value.neg /\ MagLess(ret.value.mag, TwoPow128))

\* The input with every white space and underscore removed.
Squeeze(s) == SelectSeq(s, LAMBDA c : c \notin WhiteSpace /\ c # "_")

\* C7: parseAmountToU128 throws for an amount with more than 18 digits
\* after the decimal point and for an amount that begins with '-' once white
\* space and underscores are removed; it accepts a decimal with exactly 18.
C7_RejectsTooManyDecimalsAndNegative ==
    ret.fn = "parseAmountToU128" =>
        LET s == Squeeze(args.input)
            unsigned == StripLeadingPlus(s)
        IN  /\ StartsWith(s, <<"-">>) => ~ret.ok
            /\ (IsPlainDecimal(unsigned) /\ Len(FracDigitsOf(unsigned)) > AMOUNT_DECIMALS)
                   => ~ret.ok
            /\ (IsPlainDecimal(unsigned) /\ Len(FracDigitsOf(unsigned)) = AMOUNT_DECIMALS)
                   => ret.ok

InitHex ==
    /\ args \in HexArgs
    /\ ret = NoCall
    /\ hasEthereum = FALSE
    /\ HomeConstructed

Call_encodeAccountOwner ==
    /\ ret.fn = "none"
    /\ args.kind = "owner"
    /\ ret' = Result("encodeAccountOwner", encodeAccountOwner(args.owner))
    /\ UNCHANGED <<args, homeVars>>

Call_encodeEvmAccountSignature ==
    /\ ret.fn = "none"
    /\ args.kind = "signature"
    /\ ret' = Result("encodeEvmAccountSignature",
                     encodeEvmAccountSignature(args.signatureHex, args.address))
    /\ UNCHANGED <<args, homeVars>>

NextHex == Call_encodeAccountOwner \/ Call_encodeEvmAccountSignature

SpecHex == InitHex /\ [][NextHex]_vars

(***************************************************************************)
(* Reading encoded bytes back: a little-endian u32, and the byte two hex   *)
(* digits stand for.                                                       *)
(***************************************************************************)
\* a value of 2^31 or more reads as -1: no tag or length is that large
DecodeU32LE(bytes) ==
    IF bytes[4] >= 128 THEN 0 - 1
    ELSE bytes[1] + 256 * bytes[2] + 65536 * bytes[3] + 16777216 * bytes[4]

TagOf(bytes) == IF Len(bytes) >= 4 THEN DecodeU32LE(SubSeq(bytes, 1, 4)) ELSE 0 - 1

IsHexString(s) == \A i \in 1..Len(s) : IsHexDigit(s[i])

PairByte(s, i) == 16 * HexDigitVal(s[2 * i - 1]) + HexDigitVal(s[2 * i])

\* The owner as it is classified: trimmed, lowercased, one 0x prefix removed.
NormalizedOwner(owner) == StripPrefix0x(ToLowerCase(Trim(owner)))

\* C3: encodeAccountOwner classifies the owner by its length after
\* trimming, lowercasing and removing an optional 0x prefix: 40 characters
\* encode with tag 2, 64 with tag 1, any other length throws and yields no
\* bytes; 40 hex characters, with or without 0x, in any case, get tag 2.
C3_OwnerClassifiedByLength ==
    ret.fn = "encodeAccountOwner" =>
        LET n == Len(NormalizedOwner(args.owner))
            bare == StripPrefix0xAnyCase(args.owner)
        IN  /\ n = EVM_OWNER_HEX => (ret.ok /\ TagOf(ret.bytes) = 2)
            /\ n = NATIVE_OWNER_HEX => (ret.ok /\ TagOf(ret.bytes) = 1)
            /\ n \notin {EVM_OWNER_HEX, NATIVE_OWNER_HEX} => (~ret.ok /\ ret.bytes = <<>>)
            /\ (IsHexString(bare) /\ Len(bare) = 40) => (ret.ok /\ TagOf(ret.bytes) = 2)
            /\ (IsHexString(bare) /\ Len(bare) = 64) => (ret.ok /\ TagOf(ret.bytes) = 1)

C3_Witness ==
    /\ ret.fn = "encodeAccountOwner"
    /\ args.owner = <<"0", "X">> \o Fill(<<"0", "9", "A", "f">>, 40)
    /\ ret.ok
    /\ TagOf(ret.bytes) = 2

\* C4: on every owner encodeAccountOwner accepts, the output is tag 2 and
\* exactly 20 raw bytes (24 bytes) or tag 1 and exactly 32 raw bytes (36).
C4_RawLengthMatchesTag ==
    (ret.fn = "encodeAccountOwner" /\ ret.ok) =>
        \/ TagOf(ret.bytes) = 2 /\ Len(ret.bytes) = 24
        \/ TagOf(ret.bytes) = 1 /\ Len(ret.bytes) = 36

\* C6: encodeEvmAccountSignature returns exactly when the signature decodes
\* to 65 bytes and the address to 20 bytes, and then returns 89 bytes: the
\* u32 little-endian tag 2, the 65 signature bytes, the 20 address bytes.
C6_SignatureEnvelope ==
    ret.fn = "encodeEvmAccountSignature" =>
        LET sigHex == StripPrefix0xAnyCase(args.signatureHex)
            addrHex == StripPrefix0xAnyCase(NormalizedOwner(args.address))
            sigLen == IF Len(sigHex) % 2 = 0 THEN Len(sigHex) \div 2 ELSE 0 - 1
            addrLen == IF Len(addrHex) % 2 = 0 THEN Len(addrHex) \div 2 ELSE 0 - 1
        IN  /\ ret.ok <=> (sigLen = 65 /\ addrLen = 20)
            /\ ~ret.ok => ret.bytes = <<>>
            /\ ret.ok =>
                /\ Len(ret.bytes) = 89
                /\ TagOf(ret.bytes) = 2
                /\ IsHexString(sigHex) =>
                       \A i \in 1..65 : ret.bytes[4 + i] = PairByte(sigHex, i)
                /\ IsHexString(addrHex) =>
                       \A i \in 1..20 : ret.bytes[69 + i] = PairByte(addrHex, i)

C6_Witness ==
    /\ ret.fn = "encodeEvmAccountSignature"
    /\ args.signatureHex = <<"0", "x">> \o Fill(<<"a", "B", "0", "1">>, 130)
    /\ args.address = <<"0", "x">> \o Fill(<<"c", "D", "2">>, 40)
    /\ ret.ok
    /\ Len(ret.bytes) = 89

\* A hex string is malformed when, its optional 0x prefix removed, it has
\* odd length or a character outside 0-9a-f (in either case).
MalformedHex(s) ==
    LET h == StripPrefix0xAnyCase(s)
    IN  Len(h) % 2 # 0 \/ ~IsHexString(h)

\* C8: encoding an owner, a signature or a signer address whose hex string
\* is malformed throws and produces no bytes.
C8_MalformedHexRejected ==
    /\ (ret.fn = "encodeAccountOwner" /\ MalformedHex(Trim(args.owner))) => ~ret.ok
    /\ (ret.fn = "encodeEvmAccountSignature"
            /\ (MalformedHex(args.signatureHex) \/ MalformedHex(Trim(args.address))))
           => ~ret.ok

(***************************************************************************)
(* The request payloads: owners of both kinds and a short one, names over  *)
(* code units that take one to four UTF-8 bytes, decimals at the ends of   *)
(* the byte range and past it, supplies that parse and that do not.        *)
(***************************************************************************)
EVM_OWNER == <<"0", "x">> \o Fill(<<"a", "B", "3">>, EVM_OWNER_HEX)
SHORT_OWNER == <<"0", "x", "1", "2", "3", "4">>

\* A, e-acute, the euro sign, and the two halves of U+1F600
NameUnits == {65, 233, 8364, 55357, 56832}

RECURSIVE SeqsUpTo(_, _)
SeqsUpTo(S, n) ==
    IF n = 0 THEN {<<>>}
    ELSE LET shorter == SeqsUpTo(S, n - 1)
         IN  shorter \cup {Append(q, x) : q \in shorter, x \in S}

Payloads ==
    {[owner |-> o, name |-> n, symbol |-> sy, decimals |-> d, supply |-> su] :
        o \in {EVM_OWNER, DEFAULT_OWNER, SHORT_OWNER},
        n \in SeqsUpTo(NameUnits, MaxNameLen),
        sy \in {<<>>, <<84, 83, 84>>},
        d \in {0, 9, 255, 256},
        su \in {SUPPLY_DEFAULT, <<"0", ".", "5">>, <<"-", "1">>}}

InitRequest ==
    /\ args \in {[payload |-> p] : p \in Payloads}
    /\ ret = NoCall
    /\ hasEthereum = FALSE
    /\ HomeConstructed

Call_encodeCreateTokenRequest ==
    /\ ret.fn = "none"
    /\ ret' = Result("encodeCreateTokenRequest", encodeCreateTokenRequest(args.payload))
    /\ UNCHANGED <<args, homeVars>>

NextRequest == Call_encodeCreateTokenRequest

SpecRequest == InitRequest /\ [][NextRequest]_vars

\* An owner and a supply that are valid: 40 or 64 hex digits after an
\* optional 0x, and a non-negative decimal with at most 18 fractional digits
\* whose unscaled value is below 2^128.
ValidOwner(owner) ==
    LET bare == StripPrefix0xAnyCase(Trim(owner))
    IN  IsHexString(bare) /\ Len(bare) \in {EVM_OWNER_HEX, NATIVE_OWNER_HEX}

ValidSupply(supply) ==
    LET s == Trim(supply)
    IN  /\ IsPlainDecimal(s)
        /\ Len(FracDigitsOf(s)) <= AMOUNT_DECIMALS
        /\ MagLess(parseAmountToU128(s).value.mag, TwoPow128)

\* C5: for a payload with valid owner and supply and decimals in 0..255,
\* encodeCreateTokenRequest returns, in this order and with nothing else,
\* the owner encoding, the u32-length-prefixed UTF-8 bytes of name, those of
\* symbol, the decimals byte and the 16-byte little-endian supply.
C5_RequestLayout ==
    (/\ ret.fn = "encodeCreateTokenRequest"
     /\ ValidOwner(args.payload.owner)
     /\ ValidSupply(args.payload.supply)
     /\ args.payload.decimals \in 0..255)
        => /\ ret.ok
           /\ LET p == args.payload
                  b == ret.bytes
                  ownerHex == StripPrefix0xAnyCase(Trim(p.owner))
                  nameAt == 4 + (Len(ownerHex) \div 2)
                  nameBytes == TextEncoderEncode(p.name)
                  symbolAt == nameAt + 4 + Len(nameBytes)
                  symbolBytes == TextEncoderEncode(p.symbol)
                  decimalsAt == symbolAt + 4 + Len(symbolBytes)
              IN  /\ nameAt \in {24, 36}
                  /\ Len(b) = nameAt + 4 + Len(nameBytes) + 4 + Len(symbolBytes) + 1 + 16
                  /\ TagOf(b) = IF nameAt = 24 THEN 2 ELSE 1
                  /\ \A i \in 1..(nameAt - 4) : b[4 + i] = PairByte(ownerHex, i)
                  /\ DecodeU32LE(SubSeq(b, nameAt + 1, nameAt + 4)) = Len(nameBytes)
                  /\ SubSeq(b, nameAt + 5, symbolAt) = nameBytes
                  /\ DecodeU32LE(SubSeq(b, symbolAt + 1, symbolAt + 4)) = Len(symbolBytes)
                  /\ SubSeq(b, symbolAt + 5, decimalsAt) = symbolBytes
                  /\ b[decimalsAt + 1] = p.decimals
                  /\ DecodeAmount(SubSeq(b, decimalsAt + 2, decimalsAt + 17))
                         = NormalizedAmount(Trim(p.supply))

C5_Witness ==
    /\ ret.fn = "encodeCreateTokenRequest"
    /\ ret.ok
    /\ args.payload.owner = EVM_OWNER
    /\ args.payload.name = <<8364, 65>>
    /\ args.payload.symbol = <<84, 83, 84>>
    /\ args.payload.decimals = 255
    /\ args.payload.supply = SUPPLY_DEFAULT
    /\ Len(ret.bytes) = 24 + 4 + 4 + 4 + 3 + 1 + 16

(***************************************************************************)
(* The handlers of Home.  A handler reads form and walletAddress as they   *)
(* were when it was called (its closure), also after an await; setForm     *)
(* through updateField acts on the current form.  An await ends a step:    *)
(* the wallet or the server answers in a later one, and other handlers may *)
(* run in between.                                                         *)
(***************************************************************************)
UnitWhiteSpace == {32}

\* String.prototype.trim, on a string held as code units
TrimUnits(s) ==
    SubSeq(s, FirstNotIn(s, UnitWhiteSpace, 1), LastNotIn(s, UnitWhiteSpace, Len(s)))

\* setForm((prev) => ({ ...prev, [key]: value }))
updateField(prev, key, value) == [prev EXCEPT ![key] = value]

\* keccak_256, held as its preimage: distinct inputs give distinct digests
keccak_256(bytes) == [keccak_256 |-> bytes]

\* String(error) of a thrown Error: "Error: " followed by its message msg
ErrorResult(msg) == [error |-> TRUE, text |-> msg]

\* signWithMetaMask up to its await: what it throws, or the owner and the
\* message it hands to personal_sign
signWithMetaMask_Begin(f, wallet) ==
    LET owner == wallet
        domain == TextEncoderEncode(CREATE_TOKEN_TYPE \o <<58, 58>>)
        Hashed(payloadBytes) ==
            [ok |-> payloadBytes.ok,
             error |-> payloadBytes.error,
             setOwner |-> ToLowerCase(Trim(f.owner)) # ToLowerCase(owner),
             owner |-> owner,
             message |-> IF payloadBytes.ok
                         THEN keccak_256(domain \o payloadBytes.bytes)
                         ELSE NoMessage]
    IN  IF wallet = <<>>
        THEN [ok |-> FALSE, error |-> "Connect MetaMask first.", setOwner |-> FALSE,
              owner |-> <<>>, message |-> NoMessage]
        ELSE Hashed(encodeCreateTokenRequest(
                        [owner |-> owner,
                         name |-> TrimUnits(f.tokenName),
                         symbol |-> TrimUnits(f.tokenSymbol),
                         decimals |-> f.decimals,
                         supply |-> Trim(f.supply)]))

\* signWithMetaMask after personal_sign resolved with rawSignature
signWithMetaMask_End(rawSignature, owner) ==
    LET envelope == encodeEvmAccountSignature(rawSignature, owner)
    IN  [ok |-> envelope.ok, error |-> envelope.error,
         signatureHex |-> bytesToHex(envelope.bytes)]

\* the variables of the CreateToken mutation
MutationVariables(f, signature) ==
    [owner |-> Trim(f.owner),
     name |-> TrimUnits(f.tokenName),
     symbol |-> TrimUnits(f.tokenSymbol),
     decimals |-> f.decimals,
     supply |-> Trim(f.supply),
     sig |-> signature]

(***************************************************************************)
(* What the user types and what the wallet answers.                        *)
(***************************************************************************)
WALLET_ADDRESS == EVM_OWNER
PASTED_SIGNATURE == <<"0", "x", "a", "b", "c", "d">>
GOOD_RAW_SIGNATURE == <<"0", "x">> \o Fill(<<"a", "b", "0", "1">>, 2 * SIG_BYTES)
SHORT_RAW_SIGNATURE == <<"0", "x">> \o Fill(<<"a", "b", "0", "1">>, 2 * SIG_BYTES - 2)

FieldValues ==
    [tokenName |-> {defaultForm.tokenName},
     tokenSymbol |-> {defaultForm.tokenSymbol},
     decimals |-> {defaultForm.decimals},
     owner |-> {DEFAULT_OWNER, ToLowerCase(WALLET_ADDRESS), SHORT_OWNER},
     signature |-> {<<>>, <<" ">>, PASTED_SIGNATURE},
     supply |-> {SUPPLY_DEFAULT, <<"-", "1">>}]

RawSignatures == {GOOD_RAW_SIGNATURE, SHORT_RAW_SIGNATURE}

AccountLists == {<<>>, <<WALLET_ADDRESS>>}

\* onChange of an input
Edit(key, value) ==
    /\ edits < MaxEdits
    /\ edits' = edits + 1
    /\ form' = updateField(form, key, value)
    /\ UNCHANGED <<codecVars, lastSigned,
                   submitting, result, walletAddress, walletStatus,
                   hasEthereum, connect, signer, submit, run>>

(***************************************************************************)
(* connectWallet                                                           *)
(***************************************************************************)
connectWallet ==
    /\ connect = "idle"
    /\ IF hasEthereum
       THEN walletStatus' = "" /\ connect' = "eth_requestAccounts"
       ELSE walletStatus' = "MetaMask not detected." /\ connect' = "idle"
    /\ UNCHANGED <<codecVars, lastSigned,
                   edits, form, submitting, result, walletAddress, hasEthereum,
                   signer, submit, run>>

connectWallet_Accounts(accounts) ==
    /\ connect = "eth_requestAccounts"
    /\ connect' = "idle"
    /\ LET address == IF Len(accounts) > 0 THEN accounts[1] ELSE <<>>
       IN  IF address = <<>>
           THEN /\ walletStatus' = "No account available."
                /\ UNCHANGED <<walletAddress, form>>
           ELSE /\ walletAddress' = address
                /\ form' = updateField(form, "owner", address)
                /\ walletStatus' = <<"Connected: ", address>>
    /\ UNCHANGED <<codecVars, lastSigned,
                   edits, submitting, result, hasEthereum, signer, submit, run>>

connectWallet_Rejected ==
    /\ connect = "eth_requestAccounts"
    /\ connect' = "idle"
    /\ walletStatus' = "Error: User rejected the request."
    /\ UNCHANGED <<codecVars, lastSigned,
                   edits, form, submitting, result, walletAddress, hasEthereum,
                   signer, submit, run>>

(***************************************************************************)
(* signWithMetaMask, from the Sign Payload button                          *)
(***************************************************************************)
signWithMetaMask ==
    /\ signer.pc = "idle"
    /\ \E begun \in {signWithMetaMask_Begin(form, walletAddress)} :
           /\ form' = IF begun.setOwner THEN updateField(form, "owner", begun.owner)
                      ELSE form
           /\ signer' = IF begun.ok
                        THEN [pc |-> "personal_sign", owner |-> begun.owner,
                              message |-> begun.message]
                        ELSE SignerIdle
    /\ UNCHANGED <<codecVars, lastSigned,
                   edits, submitting, result, walletAddress, walletStatus,
                   hasEthereum, connect, submit, run>>

signWithMetaMask_Signed(rawSignature) ==
    /\ signer.pc = "personal_sign"
    /\ \E ended \in {signWithMetaMask_End(rawSignature, signer.owner)} :
           /\ form' = IF ended.ok
                      THEN updateField(form, "signature", ended.signatureHex)
                      ELSE form
           /\ lastSigned' = IF ended.ok
                            THEN [signatureHex |-> ended.signatureHex,
                                  message |-> signer.message]
                            ELSE lastSigned
    /\ signer' = SignerIdle
    /\ UNCHANGED <<codecVars, edits, submitting, result, walletAddress, walletStatus,
                   hasEthereum, connect, submit, run>>

signWithMetaMask_Rejected ==
    /\ signer.pc = "personal_sign"
    /\ signer' = SignerIdle
    /\ UNCHANGED <<codecVars, lastSigned,
                   edits, form, submitting, result, walletAddress, walletStatus,
                   hasEthereum, connect, submit, run>>

(***************************************************************************)
(* submitToken.  The submit button is disabled while submitting.           *)
(***************************************************************************)
Started(sigEmpty, wallet) ==
    [started |-> TRUE, sigEmpty |-> sigEmpty, wallet |-> wallet, personalSign |-> 0,
     fetch |-> 0, rejected |-> FALSE, finished |-> FALSE]

submitToken ==
    /\ ~submitting
    /\ submit.pc = "idle"
    /\ \E pasted \in {Trim(form.signature)} :
       \E begun \in {signWithMetaMask_Begin(form, walletAddress)} :
       \E started \in {Started(pasted = <<>>, walletAddress # <<>>)} :
           IF pasted # <<>>
           THEN /\ submit' = [pc |-> "fetch", form |-> form, owner |-> <<>>,
                              message |-> NoMessage,
                              request |-> MutationVariables(form, pasted)]
                /\ submitting' = TRUE
                /\ result' = NoResult
                /\ run' = [started EXCEPT !.fetch = 1]
                /\ UNCHANGED form
           ELSE IF walletAddress # <<>>
           THEN /\ form' = IF begun.setOwner THEN updateField(form, "owner", begun.owner)
                           ELSE form
                /\ IF begun.ok
                   THEN /\ submit' = [pc |-> "personal_sign", form |-> form,
                                      owner |-> begun.owner, message |-> begun.message,
                                      request |-> NoRequest]
                        /\ submitting' = TRUE
                        /\ result' = NoResult
                        /\ run' = [started EXCEPT !.personalSign = 1]
                   ELSE /\ submit' = SubmitIdle
                        /\ submitting' = FALSE
                        /\ result' = ErrorResult(begun.error)
                        /\ run' = [started EXCEPT !.finished = TRUE]
           ELSE /\ submit' = SubmitIdle
                /\ submitting' = FALSE
                /\ result' = ErrorResult("Signature is required. Connect MetaMask or paste a signature hex.")
                /\ run' = [started EXCEPT !.finished = TRUE]
                /\ UNCHANGED form
    /\ UNCHANGED <<codecVars, lastSigned,
                   edits, walletAddress, walletStatus, hasEthereum, connect, signer>>

submitToken_Signed(rawSignature) ==
    /\ submit.pc = "personal_sign"
    /\ \E ended \in {signWithMetaMask_End(rawSignature, submit.owner)} :
           IF ended.ok
           THEN /\ form' = updateField(form, "signature", ended.signatureHex)
                /\ submit' = [submit EXCEPT
                                 !.pc = "fetch",
                                 !.request = MutationVariables(submit.form, ended.signatureHex)]
                /\ run' = [run EXCEPT !.fetch = @ + 1]
                /\ lastSigned' = [signatureHex |-> ended.signatureHex,
                                  message |-> submit.message]
                /\ UNCHANGED <<submitting, result>>
           ELSE /\ submit' = SubmitIdle
                /\ submitting' = FALSE
                /\ result' = ErrorResult(ended.error)
                /\ run' = [run EXCEPT !.finished = TRUE]
                /\ UNCHANGED <<form, lastSigned>>
    /\ UNCHANGED <<codecVars, edits, walletAddress, walletStatus, hasEthereum, connect, signer>>

submitToken_SignRejected_StaysSubmitting ==
    /\ submit.pc = "personal_sign"
    /\ submit' = SubmitIdle
    /\ result' = ErrorResult("User rejected the request.")
    /\ run' = [run EXCEPT !.rejected = TRUE, !.finished = TRUE]
    /\ UNCHANGED <<codecVars, lastSigned,
                   edits, form, submitting, walletAddress, walletStatus,
                   hasEthereum, connect, signer>>

submitToken_SignRejected ==
    /\ submit.pc = "personal_sign"
    /\ submit' = SubmitIdle
    /\ submitting' = FALSE
    /\ result' = ErrorResult("User rejected the request.")
    /\ run' = [run EXCEPT !.rejected = TRUE, !.finished = TRUE]
    /\ UNCHANGED <<codecVars, lastSigned,
                   edits, form, walletAddress, walletStatus, hasEthereum, connect,
                   signer>>

submitToken_Response ==
    /\ submit.pc = "fetch"
    /\ submit' = SubmitIdle
    /\ submitting' = FALSE
    /\ result' = [error |-> FALSE, text |-> "response.json()"]
    /\ run' = [run EXCEPT !.finished = TRUE]
    /\ UNCHANGED <<codecVars, lastSigned,
                   edits, form, walletAddress, walletStatus, hasEthereum, connect,
                   signer>>

submitToken_FetchFailed ==
    /\ submit.pc = "fetch"
    /\ submit' = SubmitIdle
    /\ submitting' = FALSE
    /\ result' = ErrorResult("Failed to fetch")
    /\ run' = [run EXCEPT !.finished = TRUE]
    /\ UNCHANGED <<codecVars, lastSigned,
                   edits, form, walletAddress, walletStatus, hasEthereum, connect,
                   signer>>

Init ==
    /\ args = [input |-> <<>>]
    /\ ret = NoCall
    /\ hasEthereum \in BOOLEAN
    /\ HomeConstructed

Next ==
    \/ \E key \in DOMAIN FieldValues : \E value \in FieldValues[key] : Edit(key, value)
    \/ connectWallet
    \/ \E accounts \in AccountLists : connectWallet_Accounts(accounts)
    \/ connectWallet_Rejected
    \/ signWithMetaMask
    \/ \E rawSignature \in RawSignatures : signWithMetaMask_Signed(rawSignature)
    \/ signWithMetaMask_Rejected
    \/ submitToken
    \/ \E rawSignature \in RawSignatures : submitToken_Signed(rawSignature)
    \/ submitToken_SignRejected
    \/ submitToken_Response
    \/ submitToken_FetchFailed

Spec == Init /\ [][Next]_vars

(***************************************************************************)
(* Validation and the external calls of Home.                              *)
(***************************************************************************)
\* C9: whenever submitToken has issued fetch, the owner and the supply of the
\* request it sends pass encodeAccountOwner and parseAmountToU128; whenever
\* submitToken or signWithMetaMask has issued personal_sign, the owner and
\* the supply of the form it was called with pass them too.
C9_ValidationBeforeExternalCalls ==
    /\ submit.pc = "fetch"
           => /\ encodeAccountOwner(submit.request.owner).ok
              /\ parseAmountToU128(submit.request.supply).ok
    /\ submit.pc = "personal_sign"
           => /\ encodeAccountOwner(Trim(submit.form.owner)).ok
              /\ parseAmountToU128(Trim(submit.form.supply)).ok
    /\ signer.pc = "personal_sign" => signer.message # NoMessage

\* C10: a run of submitToken that found no signature in the form and either
\* no wallet or a wallet that rejected personal_sign has ended with an error
\* in result (the "Signature is required" one when there was no wallet), has
\* issued no fetch, has issued personal_sign at most once (never without a
\* wallet), and has left submitting false.
C10_NoSignatureEndsInError ==
    (run.finished /\ run.sigEmpty /\ (~run.wallet \/ run.rejected))
        => /\ result.error
           /\ run.fetch = 0
           /\ run.personalSign <= 1
           /\ ~submitting
           /\ submit.pc = "idle"
           /\ ~run.wallet
                  => /\ result.text = "Signature is required. Connect MetaMask or paste a signature hex."
                     /\ run.personalSign = 0
           /\ run.rejected
                  => /\ result.text = "User rejected the request."
                     /\ run.personalSign = 1

C10_Witness ==
    /\ run.finished
    /\ run.sigEmpty
    /\ run.wallet
    /\ run.rejected
    /\ run.personalSign = 1
    /\ result.error
    /\ ~submitting

(***************************************************************************)
(* What is sent with a signature and what the signature was made over.     *)
(***************************************************************************)
\* the message is the hash signWithMetaMask computes over these variables
SignedOver(variables, message) ==
    LET sent == encodeCreateTokenRequest(
                    [owner |-> variables.owner,
                     name |-> variables.name,
                     symbol |-> variables.symbol,
                     decimals |-> variables.decimals,
                     supply |-> variables.supply])
    IN  /\ sent.ok
        /\ message = keccak_256(TextEncoderEncode(CREATE_TOKEN_TYPE \o <<58, 58>>)
                                    \o sent.bytes)

\* C11: whenever submitToken issues fetch with the envelope signWithMetaMask
\* stored last as its signature, the owner, name, symbol, decimals and supply
\* it sends encode to the payload that envelope was signed over (so the owner
\* sent is the wallet address that signed, and no field differs from what
\* was signed), whether the envelope was made in this run or taken from the
\* form.
C11_SentFieldsAreSignedFields ==
    [][(/\ submit.pc # "fetch"
        /\ submit'.pc = "fetch"
        /\ lastSigned'.signatureHex # <<>>
        /\ submit'.request.sig = lastSigned'.signatureHex)
           => SignedOver(submit'.request, lastSigned'.message)]_vars

=============================================================================
